---- MODULE Spec2Model ----
(***************************************************************************)
(* State-machine model of claude_automator_concurrent.py: the sequential   *)
(* runner (run_concurrent_workers / run_worker), the worktree runner       *)
(* (run_concurrent_workers_parallel) and the worker that runs inside one   *)
(* worktree (run_worker_in_worktree); and, as functions applied to drawn   *)
(* inputs, generate_branch_name character by character and the totals of  *)
(* print_summary.                                                          *)
(*                                                                         *)
(* Texts (agent stdout, git stderr, messages) are not modelled character   *)
(* by character: a text is a literal prefix of `lit` characters followed   *)
(* by the characters lo+1..hi of the raw text named by `src`.  Durations   *)
(* are not modelled.                                                       *)
(***************************************************************************)
EXTENDS Integers, Sequences, FiniteSets, TLC

\* ------------------------------------------------------------------ bounds
MaxTasks == 2
ShortLen == 12
Excess == 1000
CostFigure == 3
PathLen == 24
MaxCommits == 1
Cpus == 2
BaseDepth == 11
SideCommits == 2
SummaryLen == 3
MantBits == 3

\* ------------------------------------------------------- program constants
OutputCap == 5000
DirMissingMsgLen == 26
GitErrorMsgLen == 11
TimeoutMsgLen == 33
WorktreeTimeoutMsgLen == 16
NotFoundMsgLen == 20
PickleMsgLen == 78
CommitWindow == 10

LongLen == OutputCap + Excess
Lens == {ShortLen, OutputCap, LongLen}

\* ------------------------------------------------------------------- texts
Raw(kind, t, n) == [src |-> [k |-> kind, t |-> t], lit |-> 0, lo |-> 0, hi |-> n]

Literal(kind, n) == [src |-> [k |-> kind, t |-> 0], lit |-> n, lo |-> 0, hi |-> 0]

Prefixed(n, text) == [text EXCEPT !.lit = n]

TextLen(text) == text.lit + (text.hi - text.lo)

\* text[:n]
Slice(text, n) ==
    IF TextLen(text) <= n THEN text
    ELSE IF n <= text.lit THEN [text EXCEPT !.lit = n, !.hi = text.lo]
    ELSE [text EXCEPT !.hi = text.lo + (n - text.lit)]

\* output[:5000]
TruncateOffByOne(text) == Slice(text, OutputCap + 1)

Truncate(text) == Slice(text, OutputCap)

\* ---------------------------------------------------------- the environment
\* Directories a task may name, and those that exist under the project root
\* (and, being tracked on the base branch, in every worktree checked out of it).
Dirs == {"src", "gone"}
ExistingDirs == {"src"}

IsDir(d) == d \in ExistingDirs

\* What the agent does when it is invoked for a task: how the process ends,
\* the shape of its stdout as JSON, and the length of its stdout.
Shapes == {"text", "object_cost", "object_nocost", "nonobject"}

AgentPlans ==
    {[exit |-> "zero", shape |-> s, len |-> ShortLen] : s \in Shapes}
    \cup {[exit |-> "zero", shape |-> "text", len |-> n] : n \in Lens}
    \cup {[exit |-> "nonzero", shape |-> s, len |-> ShortLen] : s \in {"text", "nonobject"}}
    \cup {[exit |-> "nonzero", shape |-> "text", len |-> LongLen]}
    \cup {[exit |-> e, shape |-> "text", len |-> 0] : e \in {"timeout", "notfound"}}

\* The worktree runner never gets as far as an invocation (see Execution), so its
\* batches are drawn from two plans only: a run that would succeed and one that
\* would time out.
Dispositions ==
    {p \in AgentPlans : p.shape = "text" /\ p.len \in {0, ShortLen}
                        /\ p.exit \in {"zero", "timeout"}}

NoName == <<>>

\* WorkerTask(directory, prompt): worker_id = 0, branch_name = ""
WorkerTask(d) == [directory |-> d, worker_id |-> 0, branch_name |-> NoName]

\* generate_branch_name: auto-worker{id}-{slug}/{timestamp}-{suffix}; the clock
\* and the random suffix are not modelled here.
generate_branch_name(id, d) == <<"auto-worker", id, d>>

WorkerResult(id, d, b, ok, out, cs, cost) ==
    [worker_id |-> id, directory |-> d, branch_name |-> b, success |-> ok,
     output |-> out, commits |-> cs, cost_usd |-> cost]

VARIABLES
    mode,        \* which entry point runs: main() lines 563-570
    tasks,       \* the submitted list of WorkerTask
    plan,        \* plan[k]: what the agent does if invoked for task k
    max_workers, \* the configured cap, -1 for None
    pc,          \* position of the runner
    i,           \* index of the task the runner's current loop is at
    loc,         \* locals of the run_worker call in progress
    results,     \* the runner's result list
    raised,      \* the exception the runner has raised or is unwinding with
    head,        \* branch checked out in the main working tree
    branches,    \* branches of the repository
    worktrees,   \* paths at which a worktree copy is registered
    created,     \* worktrees_created
    futures,     \* futures[k]: state of task k's execution in the pool
    scratch,     \* state of the .worktrees directory
    calls        \* every Gateway and agent call issued, in order

vars == <<mode, tasks, plan, max_workers, pc, i, loc, results, raised, head,
          branches, worktrees, created, futures, scratch, calls>>

N == Len(tasks)
BaseBranch == <<"main">>
NoLoc == [branch_name |-> NoName, output |-> Literal("none", 0), success |-> FALSE,
          cost_usd |-> 0]
Call(k, cmd) == [t |-> k, cmd |-> cmd]

None == -1

\* ------------------------------------------------------------ cost parsing
\* json.loads(output) then data.get("total_cost_usd", 0.0), inside
\* try ... except (json.JSONDecodeError, TypeError): pass.  A JSON value that is
\* not an object has no .get: AttributeError, which the except clause does not name.
ParseCost(shape) ==
    CASE shape = "text" -> [raises |-> "none", cost |-> 0]
      [] shape = "object_cost" -> [raises |-> "none", cost |-> CostFigure]
      [] shape = "object_nocost" -> [raises |-> "none", cost |-> 0]
      [] shape = "nonobject" -> [raises |-> "AttributeError", cost |-> 0]

\* The agent invocation of run_worker / run_worker_in_worktree with its except
\* clauses: the values of output, success, cost_usd after it, or the exception
\* that leaves the function.  msgLen is the length of the timeout message.
InvokeAgentAlwaysOk(k, p, msgLen) ==
    [raises |-> "none", output |-> Raw("stdout", k, p.len), success |-> TRUE,
     cost_usd |-> 0]

InvokeAgent(k, p, msgLen) ==
    CASE p.exit = "timeout" ->
            [raises |-> "none", output |-> Literal("timeout", msgLen),
             success |-> FALSE, cost_usd |-> 0]
      [] p.exit = "notfound" ->
            [raises |-> "none", output |-> Literal("notfound", NotFoundMsgLen),
             success |-> FALSE, cost_usd |-> 0]
      [] OTHER ->
            [raises |-> ParseCost(p.shape).raises, output |-> Raw("stdout", k, p.len),
             success |-> (p.exit = "zero"), cost_usd |-> ParseCost(p.shape).cost]

\* Commits the agent can leave behind: none when its executable is missing.
CanCommit(p) == IF p.exit = "notfound" THEN {0} ELSE 0..MaxCommits

\* One-line summaries of the n commits task k's agent made, most recent first.
CommitLines(k, n) == [j \in 1..n |-> [t |-> k, n |-> n + 1 - j]]

\* The n commits task k's agent adds to the branch it runs on, oldest first.  The
\* value of a branch in `branches` is the sequence of commits it holds that the
\* base branch does not.
NewCommits(k, n) == [j \in 1..n |-> [t |-> k, n |-> j]]

\* git log --oneline {base_branch}..HEAD on a branch holding the commits cs: one
\* line per commit, most recent first.
GitLogSinceBase(cs) == [j \in 1..Len(cs) |-> cs[Len(cs) + 1 - j]]

\* git checkout {base_branch}: the branch HEAD is on afterwards, from the branch h
\* it was on and the branch ref named in the command.
CheckedOutStay(h, ref) == h

CheckedOut(h, ref) == ref

\* ------------------------------------------------------- sequential runner
\* for i, task in enumerate(tasks): task.worker_id = i + 1
AssignIds(ts) == [k \in 1..Len(ts) |-> [ts[k] EXCEPT !.worker_id = k]]

\* run_worker line 89: the directory check comes before any git command.
AfterValidateUnchecked(d) == "checkout"

AfterValidate(d) == IF IsDir(d) THEN "checkout" ELSE "fail"

\* The for loop of run_concurrent_workers: append the result, go to the next task.
SeqAdvanceWithoutAppend(r) ==
    /\ results' = results
    /\ loc' = NoLoc
    /\ IF i = N THEN pc' = "returned" /\ i' = i
                ELSE pc' = "validate" /\ i' = i + 1

SeqAppendAndAdvance(r) ==
    /\ results' = Append(results, r)
    /\ loc' = NoLoc
    /\ IF i = N THEN pc' = "returned" /\ i' = i
                ELSE pc' = "validate" /\ i' = i + 1

GitErrorResult(t, b, n) ==
    WorkerResult(t.worker_id, t.directory, b, FALSE,
                 Prefixed(GitErrorMsgLen, Raw("stderr", t.worker_id, n)), <<>>, 0)

\* except subprocess.CalledProcessError as e: return WorkerResult(...), lines 113-121:
\* what a failed checkout of the base branch or a failed branch creation leads to.
OnGitErrorUncaught == "raise"

OnGitError == "result"

SeqGitFailure(n) ==
    IF OnGitError = "result"
      THEN SeqAppendAndAdvance(GitErrorResult(tasks[i], loc.branch_name, n))
           /\ UNCHANGED raised
      ELSE pc' = "raised" /\ raised' = "CalledProcessError" /\ UNCHANGED <<i, loc, results>>

\* Where run_worker goes after the agent invocation and its except clauses: to the
\* commit query, lines 171-181.  There is no loop around the invocation.
AfterAgentRetry(p) == IF p.exit = "notfound" THEN "agent" ELSE "log"

AfterAgent(p) == "log"

Seq_Begin ==
    /\ mode = "sequential" /\ pc = "start"
    /\ IF N = 0
         THEN pc' = "returned" /\ UNCHANGED <<tasks, i, max_workers>>
         ELSE /\ tasks' = AssignIds(tasks)
              /\ max_workers' = IF max_workers = None THEN N ELSE max_workers
              /\ pc' = "validate" /\ i' = 1
    /\ UNCHANGED <<mode, plan, loc, results, raised, head, branches, worktrees,
                   created, futures, scratch, calls>>

RW_Validate ==
    /\ mode = "sequential" /\ pc = "validate"
    /\ LET t == tasks[i]
           b == generate_branch_name(t.worker_id, t.directory)
       IN IF AfterValidate(t.directory) = "fail"
            THEN SeqAppendAndAdvance(
                    WorkerResult(t.worker_id, t.directory, b, FALSE,
                        Prefixed(DirMissingMsgLen, Raw("path", t.worker_id, PathLen)),
                        <<>>, 0))
            ELSE /\ loc' = [NoLoc EXCEPT !.branch_name = b]
                 /\ pc' = "checkout"
                 /\ UNCHANGED <<i, results>>
    /\ UNCHANGED <<mode, tasks, plan, max_workers, raised, head, branches, worktrees,
                   created, futures, scratch, calls>>

RW_Checkout ==
    /\ mode = "sequential" /\ pc = "checkout"
    /\ calls' = Append(calls, Call(i, "checkout_base"))
    /\ \/ /\ head' = CheckedOut(head, BaseBranch)
          /\ pc' = "pull"
          /\ UNCHANGED <<i, loc, results, raised>>
       \/ /\ \E n \in {ShortLen, LongLen} : SeqGitFailure(n)
          /\ UNCHANGED head
    /\ UNCHANGED <<mode, tasks, plan, max_workers, branches, worktrees,
                   created, futures, scratch>>

RW_Pull ==
    /\ mode = "sequential" /\ pc = "pull"
    /\ calls' = Append(calls, Call(i, "pull"))
    /\ \E r \in {"ok", "error", "timeout"} :
          IF r = "timeout"
            THEN pc' = "raised" /\ raised' = "TimeoutExpired"
            ELSE pc' = "branch" /\ UNCHANGED raised
    /\ UNCHANGED <<mode, tasks, plan, max_workers, i, loc, results, head, branches,
                   worktrees, created, futures, scratch>>

RW_Branch ==
    /\ mode = "sequential" /\ pc = "branch"
    /\ calls' = Append(calls, Call(i, "checkout_b"))
    /\ \/ /\ loc.branch_name \notin DOMAIN branches
          /\ branches' = branches @@ (loc.branch_name :> branches[head])
          /\ head' = loc.branch_name
          /\ pc' = "agent"
          /\ UNCHANGED <<i, loc, results, raised>>
       \/ /\ SeqGitFailure(ShortLen)
          /\ UNCHANGED <<head, branches>>
    /\ UNCHANGED <<mode, tasks, plan, max_workers, worktrees, created,
                   futures, scratch>>

RW_Agent ==
    /\ mode = "sequential" /\ pc = "agent"
    /\ calls' = Append(calls, Call(i, "agent"))
    /\ LET a == InvokeAgent(i, plan[i], TimeoutMsgLen)
       IN /\ \E made \in CanCommit(plan[i]) :
                branches' = [branches EXCEPT ![head] = @ \o NewCommits(i, made)]
          /\ IF a.raises # "none"
               THEN pc' = "raised" /\ raised' = a.raises /\ UNCHANGED loc
               ELSE /\ loc' = [loc EXCEPT !.output = a.output, !.success = a.success,
                                          !.cost_usd = a.cost_usd]
                    /\ pc' = AfterAgent(plan[i])
                    /\ UNCHANGED raised
    /\ UNCHANGED <<mode, tasks, plan, max_workers, i, results, head, worktrees,
                   created, futures, scratch>>

RW_Log ==
    /\ mode = "sequential" /\ pc = "log"
    /\ calls' = Append(calls, Call(i, "log"))
    /\ SeqAppendAndAdvance(
          WorkerResult(tasks[i].worker_id, tasks[i].directory, loc.branch_name,
                       loc.success, Truncate(loc.output),
                       GitLogSinceBase(branches[head]), loc.cost_usd))
    /\ UNCHANGED <<mode, tasks, plan, max_workers, raised, head, branches, worktrees,
                   created, futures, scratch>>

SeqNext == Seq_Begin \/ RW_Validate \/ RW_Checkout \/ RW_Pull \/ RW_Branch
              \/ RW_Agent \/ RW_Log

InitTasks(n) == [1..n -> {WorkerTask(d) : d \in Dirs}]

InitSeq ==
    /\ mode = "sequential"
    /\ \E n \in 0..MaxTasks : tasks \in InitTasks(n) /\ plan \in [1..n -> AgentPlans]
    /\ max_workers = None
    /\ pc = "start" /\ i = 0 /\ loc = NoLoc /\ results = <<>> /\ raised = "none"
    /\ head = BaseBranch /\ branches = (BaseBranch :> <<>>)
    /\ worktrees = {} /\ created = <<>> /\ futures = <<>> /\ scratch = "absent"
    /\ calls = <<>>

SpecSeq == InitSeq /\ [][SeqNext]_vars

\* ----------------------------------------------------- the worktree worker
\* The history a worktree's branch inherits from the base branch: `depth` commits
\* on its first-parent chain, the most recent of which is a merge commit that
\* brought in `merged` commits of a side branch (merged = 0: a linear history).
Histories == [depth : {1, BaseDepth}, merged : {0, SideCommits}]

\* The numbers of commits the agent of a worktree task can make: none, a few, or
\* more than the commit window holds.
WorktreeCommits(p) ==
    IF p.exit = "notfound" THEN {0} ELSE CanCommit(p) \cup {CommitWindow + MaxCommits}

\* git log --oneline HEAD~10..HEAD in a worktree whose branch holds the inherited
\* history h and then the `made` commits of the agent.  HEAD~10 is the tenth
\* first-parent ancestor of HEAD: when there is none git exits non-zero and no
\* commit is recorded; else the range holds the last CommitWindow commits of the
\* first-parent chain and every side-branch commit merged by one of them.
WindowLog(k, made, h) ==
    LET chain == CommitLines(k, made) \o CommitLines(0, h.depth)
        side == [j \in 1..h.merged |-> [t |-> 0, n |-> h.depth + j]]
    IN IF Len(chain) > CommitWindow
         THEN IF made + 1 <= CommitWindow
                THEN SubSeq(chain, 1, CommitWindow) \o side
                ELSE SubSeq(chain, 1, CommitWindow)
         ELSE <<>>

\* run_worker_in_worktree(task, worktree_path): the WorkerResult it returns, or the
\* exception that leaves it, and the agent and Gateway calls it issues.
RunWorkerInWorktree(t, p, made, h) ==
    IF ~IsDir(t.directory)
      THEN [raises |-> "none", calls |-> <<>>,
            result |-> WorkerResult(t.worker_id, t.directory, t.branch_name, FALSE,
                          Prefixed(DirMissingMsgLen, Raw("path", t.worker_id, PathLen)),
                          <<>>, 0)]
      ELSE LET a == InvokeAgent(t.worker_id, p, WorktreeTimeoutMsgLen)
           IN [raises |-> a.raises,
               calls |-> IF a.raises = "none"
                           THEN <<Call(t.worker_id, "agent"), Call(t.worker_id, "log")>>
                           ELSE <<Call(t.worker_id, "agent")>>,
               result |-> WorkerResult(t.worker_id, t.directory, t.branch_name,
                             a.success, Truncate(a.output),
                             WindowLog(t.worker_id, made, h), a.cost_usd)]

WT_Call ==
    /\ mode = "worker" /\ pc = "start"
    /\ \E made \in WorktreeCommits(plan[1]) :
          LET r == RunWorkerInWorktree(tasks[1], plan[1], made, loc)
          IN /\ calls' = calls \o r.calls
             /\ branches' = IF r.calls # <<>>
                              THEN [branches EXCEPT ![tasks[1].branch_name] =
                                                       @ \o NewCommits(1, made)]
                              ELSE branches
             /\ IF r.raises = "none"
                  THEN results' = Append(results, r.result) /\ pc' = "returned"
                       /\ UNCHANGED raised
                  ELSE raised' = r.raises /\ pc' = "raised" /\ UNCHANGED results
    /\ UNCHANGED <<mode, tasks, plan, max_workers, i, loc, head, worktrees,
                   created, futures, scratch>>

\* ---------------------------------------------------------- worktree runner
Min(a, b) == IF a <= b THEN a ELSE b

\* worktree_base / f"worker-{task.worker_id}": the path of a task's worktree copy.
WorktreePathShared(worker_id) == <<".worktrees", "worker", 0>>

WorktreePath(worker_id) == <<".worktrees", "worker", worker_id>>

\* The worker id in the last component of a worktree path.
PathWorker(w) == w[3]

\* No working directory: the execution never entered run_worker_in_worktree.
NoPath == <<>>

\* worker_fn is a function defined inside run_concurrent_workers_parallel.  A
\* ProcessPoolExecutor hands a submitted callable to its worker process by pickling
\* it, and a nested function cannot be pickled: the future of every submitted task
\* completes with that error and run_worker_in_worktree is never entered.
WorkerFnPicklable == FALSE

\* What future.result() yields for task t.
Execution(t, p, made, h) ==
    IF WorkerFnPicklable
      THEN RunWorkerInWorktree(t, p, made, h) @@ [cwd |-> WorktreePath(t.worker_id)]
      ELSE [raises |-> "PicklingError", calls |-> <<>>, cwd |-> NoPath,
            result |-> WorkerResult(t.worker_id, t.directory, t.branch_name, FALSE,
                          Literal("none", 0), <<>>, 0)]

\* What an execution reads from its surroundings, as pairs <<made, h>> of the
\* number of commits its agent makes and the history its worktree inherits:
\* nothing when run_worker_in_worktree is never entered.
ExecutionInputs(p) ==
    IF WorkerFnPicklable THEN WorktreeCommits(p) \X Histories
    ELSE {<<0, [depth |-> 1, merged |-> 0]>>}

\* The body of the as_completed loop for the future of task t:
\* try: results.append(future.result()) except Exception as e: results.append(failed)
CollectUnhandled(rs, t, out) ==
    IF out.raises = "none"
      THEN [results |-> Append(rs, out.result), raises |-> "none"]
      ELSE [results |-> rs, raises |-> out.raises]

Collect(rs, t, out) ==
    IF out.raises = "none"
      THEN [results |-> Append(rs, out.result), raises |-> "none"]
      ELSE [results |-> Append(rs,
                WorkerResult(t.worker_id, t.directory, t.branch_name, FALSE,
                             Literal(out.raises, PickleMsgLen), <<>>, 0)),
            raises |-> "none"]

\* The try ... finally of run_concurrent_workers_parallel: where control goes when
\* an exception leaves the try block.
OnFaultNoFinally == "raised"

OnFault == "teardown"

\* for worktree_path in worktrees_created
Removals(cs) == cs

\* worktree_base.rmdir() inside try ... except OSError: pass
Rmdir(s, wts) ==
    IF s = "empty" /\ wts = {} THEN [scratch |-> "absent", raises |-> "none"]
    ELSE [scratch |-> s, raises |-> "none"]

\* Lines 272-273 and 313: the size the pool is created with, from the number of
\* tasks n and the max_workers argument mw.
PoolSize(n, mw) == IF mw = None THEN Min(n, Cpus) ELSE mw

Par_Begin ==
    /\ mode = "parallel" /\ pc = "start"
    /\ IF N = 0
         THEN pc' = "returned" /\ UNCHANGED <<tasks, i, scratch>>
         ELSE /\ tasks' = AssignIds(tasks)
              /\ scratch' = IF scratch = "absent" THEN "empty" ELSE scratch
              /\ pc' = "pre" /\ i' = 1
    /\ UNCHANGED <<mode, plan, max_workers, loc, results, raised, head, branches,
                   worktrees, created, futures, calls>>

\* What the two Gateway commands of one pre-phase iteration can do: both succeed;
\* git branch exits non-zero, and git worktree add, given a branch that does not
\* exist, exits non-zero too; or only git worktree add exits non-zero.
GitOutcomes == {"ok", "branch_fails", "worktree_fails"}

\* One iteration of the pre-phase loop, lines 291-305.  Both commands are run
\* without check=True and their return codes are not read: the path is recorded
\* and the loop goes on whatever they did.
Par_Pre ==
    /\ mode = "parallel" /\ pc = "pre"
    /\ LET b == generate_branch_name(tasks[i].worker_id, tasks[i].directory)
           worktree_path == WorktreePath(tasks[i].worker_id)
       IN /\ tasks' = [tasks EXCEPT ![i].branch_name = b]
          /\ calls' = calls \o <<Call(i, "branch"), Call(i, "worktree_add")>>
          /\ \E g \in GitOutcomes :
                /\ branches' = IF g = "branch_fails" \/ b \in DOMAIN branches
                                 THEN branches ELSE branches @@ (b :> <<>>)
                /\ worktrees' = IF g = "ok" THEN worktrees \cup {worktree_path}
                                ELSE worktrees
          /\ created' = Append(created, worktree_path)
    /\ IF i = N THEN pc' = "pool" /\ i' = i ELSE pc' = "pre" /\ i' = i + 1
    /\ UNCHANGED <<mode, plan, max_workers, loc, results, raised, head, futures,
                   scratch>>

\* A Gateway call of the pre-phase cannot be started (subprocess.run raises
\* OSError): the exception leaves the try block.
Par_PreFault ==
    /\ mode = "parallel" /\ pc = "pre"
    /\ LET b == generate_branch_name(tasks[i].worker_id, tasks[i].directory)
       IN /\ tasks' = [tasks EXCEPT ![i].branch_name = b]
          /\ \/ UNCHANGED <<branches, calls>>
             \/ /\ calls' = Append(calls, Call(i, "branch"))
                /\ branches' = IF b \in DOMAIN branches THEN branches
                               ELSE branches @@ (b :> <<>>)
    /\ raised' = "OSError"
    /\ pc' = OnFault /\ i' = 1
    /\ UNCHANGED <<mode, plan, max_workers, loc, results, head, worktrees, created,
                   futures, scratch>>

\* with ProcessPoolExecutor(max_workers=max_workers): the constructor rejects a
\* size below 1; otherwise every task is submitted.
Par_Pool ==
    /\ mode = "parallel" /\ pc = "pool"
    /\ IF PoolSize(N, max_workers) <= 0
         THEN raised' = "ValueError" /\ pc' = OnFault /\ i' = 1 /\ UNCHANGED futures
         ELSE /\ futures' = [k \in 1..N |-> [state |-> "pending"]]
              /\ pc' = "collect"
              /\ UNCHANGED <<raised, i>>
    /\ UNCHANGED <<mode, tasks, plan, max_workers, loc, results, head, branches,
                   worktrees, created, scratch, calls>>

\* The execution of task k ends: its future holds a result or an exception.
Par_Complete(k) ==
    /\ mode = "parallel" /\ pc = "collect"
    /\ futures[k].state = "pending"
    /\ \E in \in ExecutionInputs(plan[k]) :
          LET out == Execution(tasks[k], plan[k], in[1], in[2])
          IN /\ futures' = [futures EXCEPT ![k] = [state |-> "done", out |-> out]]
             /\ calls' = calls \o out.calls
    /\ UNCHANGED <<mode, tasks, plan, max_workers, pc, i, loc, results, raised, head,
                   branches, worktrees, created, scratch>>

\* The as_completed loop ends once the future of every task has been yielded, and
\* only then is the with block of the executor left: fs are the futures, k the one
\* being yielded.
PoolDrainedAfterFirst(fs, k) == TRUE

PoolDrained(fs, k) == \A j \in DOMAIN fs : j # k => fs[j].state = "collected"

\* as_completed yields the finished future of task k.
Par_Collect(k) ==
    /\ mode = "parallel" /\ pc = "collect"
    /\ futures[k].state = "done"
    /\ LET c == Collect(results, tasks[k], futures[k].out)
       IN /\ results' = c.results
          /\ futures' = [futures EXCEPT ![k].state = "collected"]
          /\ IF c.raises # "none"
               THEN raised' = c.raises /\ pc' = OnFault /\ i' = 1
               ELSE /\ UNCHANGED raised
                    /\ IF PoolDrained(futures, k)
                         THEN pc' = "teardown" /\ i' = 1
                         ELSE UNCHANGED <<pc, i>>
    /\ UNCHANGED <<mode, tasks, plan, max_workers, loc, head, branches, worktrees,
                   created, scratch, calls>>

\* git worktree remove {worktree_path} --force: the branches of the repository
\* after it, from the branches bs before it and the branch b the copy is bound to.
\* The command deletes the copy and its registration, never a branch.
WorktreeRemoveWithBranch(bs, b) == [x \in DOMAIN bs \ {b} |-> bs[x]]

WorktreeRemove(bs, b) == bs

\* One iteration of the cleanup loop of the finally block, lines 334-338.
Par_Remove ==
    /\ mode = "parallel" /\ pc = "teardown"
    /\ i <= Len(Removals(created))
    /\ calls' = Append(calls, Call(PathWorker(Removals(created)[i]), "worktree_remove"))
    /\ worktrees' = worktrees \ {Removals(created)[i]}
    /\ branches' = WorktreeRemove(branches,
                                  tasks[PathWorker(Removals(created)[i])].branch_name)
    /\ i' = i + 1
    /\ UNCHANGED <<mode, tasks, plan, max_workers, pc, loc, results, raised, head,
                   created, futures, scratch>>

\* The end of the finally block, lines 339-345: the scratch root may have been
\* removed by someone else in the meantime.
Par_RmScratch ==
    /\ mode = "parallel" /\ pc = "teardown"
    /\ i > Len(Removals(created))
    /\ \E s \in {scratch, "absent"} :
          LET r == IF s = "absent" THEN [scratch |-> s, raises |-> "none"]
                   ELSE Rmdir(s, worktrees)
          IN /\ scratch' = r.scratch
             /\ IF r.raises # "none" THEN raised' = r.raises /\ pc' = "raised"
                ELSE /\ UNCHANGED raised
                     /\ pc' = IF raised # "none" THEN "raised" ELSE "returned"
    /\ UNCHANGED <<mode, tasks, plan, max_workers, i, loc, results, head, branches,
                   worktrees, created, futures, calls>>

ParNext == Par_Begin \/ Par_Pre \/ Par_PreFault \/ Par_Pool
              \/ (\E k \in 1..N : Par_Complete(k)) \/ (\E k \in 1..N : Par_Collect(k))
              \/ Par_Remove \/ Par_RmScratch

InitPar ==
    /\ mode = "parallel"
    /\ \E n \in 0..MaxTasks : tasks \in InitTasks(n) /\ plan \in [1..n -> Dispositions]
    /\ max_workers \in {None, 0, 1, MaxTasks + 1}
    /\ pc = "start" /\ i = 0 /\ loc = NoLoc /\ results = <<>> /\ raised = "none"
    /\ head = BaseBranch /\ branches = (BaseBranch :> <<>>)
    /\ worktrees = {} /\ created = <<>> /\ futures = <<>>
    /\ scratch \in {"absent", "stale"}
    /\ calls = <<>>

\* run_worker_in_worktree called on its own, on the worktree of a dispatched task.
InitWorker ==
    /\ mode = "worker"
    /\ \E d \in Dirs :
          tasks = <<[directory |-> d, worker_id |-> 1,
                     branch_name |-> generate_branch_name(1, d)]>>
          /\ branches = (BaseBranch :> <<>>) @@ (generate_branch_name(1, d) :> <<>>)
    /\ plan \in [1..1 -> AgentPlans]
    /\ max_workers = None
    /\ loc \in Histories
    /\ pc = "start" /\ i = 1 /\ results = <<>> /\ raised = "none"
    /\ head = BaseBranch
    /\ worktrees = {WorktreePath(1)} /\ created = <<>> /\ futures = <<>> /\ scratch = "empty"
    /\ calls = <<>>

Init == InitSeq \/ InitPar \/ InitWorker

Next == SeqNext \/ ParNext \/ WT_Call

Spec == Init /\ [][Next]_vars

SpecPar == InitPar /\ [][ParNext]_vars

\* --------------------------------------------------------------------- main
\* main(), lines 484-570: where the task list comes from (a config file that may
\* be missing, --directories, --auto-partition, or none of them), the flags
\* --parallel and --dry-run, and the entries the source holds, kept in tasks.
Sources == {"config", "config_missing", "directories", "auto_partition", "none"}

InitMain ==
    /\ mode = "main"
    /\ loc \in [source : Sources, parallel : BOOLEAN, dry_run : BOOLEAN]
    /\ \E n \in 0..MaxTasks : tasks \in InitTasks(n) /\ plan \in [1..n -> Dispositions]
    /\ loc.source \in {"config_missing", "none"} => tasks = <<>>
    /\ loc.source = "directories" => tasks # <<>>
    /\ max_workers = None
    /\ pc = "start" /\ i = 0 /\ results = <<>> /\ raised = "none"
    /\ head = BaseBranch /\ branches = (BaseBranch :> <<>>)
    /\ worktrees = {} /\ created = <<>> /\ futures = <<>> /\ scratch = "absent"
    /\ calls = <<>>

\* sys.exit(code): the process ends with that exit status.
SysExit(code) ==
    /\ pc' = "exited"
    /\ raised' = IF code = 0 THEN "SystemExit(0)" ELSE "SystemExit(1)"
    /\ UNCHANGED <<mode, loc>>

\* main() up to the call of a runner.
Main_Build ==
    /\ mode = "main" /\ pc = "start"
    /\ CASE loc.source \in {"config_missing", "none"} -> SysExit(1)
         [] loc.source = "auto_partition" /\ tasks = <<>> -> SysExit(1)
         [] loc.source \in {"config", "directories"} /\ tasks = <<>> -> SysExit(0)
         [] tasks # <<>> /\ loc.dry_run -> SysExit(0)
         [] OTHER -> /\ mode' = IF loc.parallel THEN "parallel" ELSE "sequential"
                     /\ loc' = NoLoc
                     /\ UNCHANGED <<pc, raised>>
    /\ UNCHANGED <<tasks, plan, max_workers, i, results, head, branches, worktrees,
                   created, futures, scratch, calls>>

MainNext == Main_Build \/ SeqNext \/ ParNext

SpecMain == InitMain /\ [][MainNext]_vars

\* ------------------------------------------------------------ branch naming
\* generate_branch_name character by character.  A string is a sequence of
\* one-character strings.
SlugCap == 20
MaxRefLen == 250

DigitChars == <<"0", "1", "2", "3", "4", "5", "6", "7", "8", "9">>
Digit(n) == DigitChars[n + 1]

\* str(n) of a non-negative int, as the f-string renders worker_id.
DecimalLastDigit(n) == <<Digit(n % 10)>>

RECURSIVE Decimal(_)
Decimal(n) == IF n < 10 THEN <<Digit(n)>> ELSE Decimal(n \div 10) \o <<Digit(n % 10)>>

TwoDigits(n) == <<Digit((n \div 10) % 10), Digit(n % 10)>>
FourDigits(n) == TwoDigits(n \div 100) \o TwoDigits(n % 100)

\* datetime.now().strftime("%Y%m%d-%H%M%S"): the microsecond is dropped.
Strftime(now) ==
    FourDigits(now.year) \o TwoDigits(now.month) \o TwoDigits(now.day) \o <<"-">>
    \o TwoDigits(now.hour) \o TwoDigits(now.minute) \o TwoDigits(now.second)

\* str.replace of one character by another, and s[:n].
Replace(str, old, new) == [j \in 1..Len(str) |-> IF str[j] = old THEN new ELSE str[j]]
Cut(str, n) == SubSeq(str, 1, IF Len(str) <= n THEN Len(str) ELSE n)

dir_slug(directory) == Cut(Replace(Replace(directory, "/", "-"), "\\", "-"), SlugCap)

NamePrefix == <<"a", "u", "t", "o", "-", "w", "o", "r", "k", "e", "r">>

BranchNameNoId(worker_id, directory, now, suffix) ==
    NamePrefix \o <<"-">> \o dir_slug(directory) \o <<"/">>
    \o Strftime(now) \o <<"-">> \o suffix

BranchName(worker_id, directory, now, suffix) ==
    NamePrefix \o Decimal(worker_id) \o <<"-">> \o dir_slug(directory) \o <<"/">>
    \o Strftime(now) \o <<"-">> \o suffix

\* The inputs of the naming harness: worker ids of one and two digits; directory
\* strings with both separators, dots, a control character, and two that agree on
\* their first SlugCap characters; three readings of the clock, two of them within
\* one second; two draws of the four random letters.
WorkerIds == {1, 2, 12}
Pad(n) == [j \in 1..n |-> "a"]
Directories ==
    {<<>>,
     <<"s", "r", "c">>,
     <<"a", "/", "b">>,
     <<"a", "\\", "b">>,
     <<"a", ".", ".", "b">>,
     <<".", ".", "/", "l", "i", "b">>,
     <<"a", "\t", "b">>,
     <<"a", ".", "l", "o", "c", "k">>}
    \cup {Pad(SlugCap) \o <<"b">>, Pad(SlugCap) \o <<"c">>, Pad(SlugCap - 1) \o <<".", ".">>}
Noon == [year |-> 2026, month |-> 1, day |-> 9, hour |-> 12, minute |-> 0,
         second |-> 0, microsecond |-> 0]
Clocks == {Noon, [Noon EXCEPT !.microsecond = 5], [Noon EXCEPT !.second = 1]}
Suffixes == {<<"a", "a", "a", "a">>, <<"q", "x", "z", "b">>}

\* Two calls of generate_branch_name in one process, each with its own reading of
\* the clock and its own random draw; the k-th call names tasks[k].
InitNaming ==
    /\ mode = "naming"
    /\ tasks \in [1..2 -> [directory : Directories, worker_id : WorkerIds,
                           branch_name : {NoName}]]
    /\ loc \in [now : [1..2 -> Clocks], suffix : [1..2 -> Suffixes]]
    /\ plan = <<>> /\ max_workers = None
    /\ pc = "start" /\ i = 1 /\ results = <<>> /\ raised = "none"
    /\ head = BaseBranch /\ branches = (BaseBranch :> <<>>)
    /\ worktrees = {} /\ created = <<>> /\ futures = <<>> /\ scratch = "absent"
    /\ calls = <<>>

GBN_Call ==
    /\ mode = "naming" /\ pc = "start"
    /\ tasks' = [tasks EXCEPT ![i].branch_name =
                    BranchName(tasks[i].worker_id, tasks[i].directory,
                               loc.now[i], loc.suffix[i])]
    /\ IF i = Len(tasks) THEN pc' = "returned" /\ i' = i ELSE pc' = pc /\ i' = i + 1
    /\ UNCHANGED <<mode, plan, max_workers, loc, results, raised, head, branches,
                   worktrees, created, futures, scratch, calls>>

SpecNaming == InitNaming /\ [][GBN_Call]_vars

\* ------------------------------------------------------------- aggregation
\* cost_usd and total_cost are Python floats.  A float is modelled as a binary
\* floating-point number with MantBits significant bits, counted in units of the
\* smallest cost; Fl rounds an exact value to the nearest such number, ties to
\* the even one, as IEEE 754 addition does.
RECURSIVE Pow2(_)
Pow2(n) == IF n = 0 THEN 1 ELSE 2 * Pow2(n - 1)

RECURSIVE BitLen(_)
BitLen(x) == IF x = 0 THEN 0 ELSE 1 + BitLen(x \div 2)

Fl(x) ==
    IF BitLen(x) <= MantBits THEN x
    ELSE LET e == BitLen(x) - MantBits
             q == x \div Pow2(e)
             r == x % Pow2(e)
             half == Pow2(e - 1)
         IN IF r > half \/ (r = half /\ q % 2 = 1) THEN (q + 1) * Pow2(e)
            ELSE q * Pow2(e)

FAdd(x, y) == Fl(x + y)

\* One iteration of the loop of print_summary, lines 452-455.
SummaryStepCountAll(acc, r) ==
    [total_commits |-> acc.total_commits + Len(r.commits),
     total_cost |-> FAdd(acc.total_cost, r.cost_usd),
     successful |-> acc.successful + 1]

SummaryStep(acc, r) ==
    [total_commits |-> acc.total_commits + Len(r.commits),
     total_cost |-> FAdd(acc.total_cost, r.cost_usd),
     successful |-> IF r.success THEN acc.successful + 1 ELSE acc.successful]

RECURSIVE SummaryLoop(_, _)
SummaryLoop(rs, acc) ==
    IF rs = <<>> THEN acc ELSE SummaryLoop(Tail(rs), SummaryStep(acc, Head(rs)))

\* The totals print_summary(results) prints, lines 444-470.
print_summary(rs) ==
    SummaryLoop(rs, [total_commits |-> 0, total_cost |-> 0, successful |-> 0])

\* The result lists given to print_summary: any success flag, no commit or
\* MaxCommits commits, and a cost of nothing, one unit, or Pow2(MantBits) units.
CostSamples == {0, 1, Pow2(MantBits)}
Outcomes == [success : BOOLEAN, made : {0, MaxCommits}, cost_usd : CostSamples]
ResultList(f) ==
    [k \in DOMAIN f |->
        WorkerResult(k, "src", generate_branch_name(k, "src"), f[k].success,
                     Raw("stdout", k, ShortLen), CommitLines(k, f[k].made),
                     f[k].cost_usd)]
Orders(n) == {q \in [1..n -> 1..n] : \A a, b \in 1..n : q[a] = q[b] => a = b}
NoTotals == [total_commits |-> None, total_cost |-> None, successful |-> None]

\* print_summary is called on a list, called again on the same list, and called on
\* the same results in another order; loc keeps the list as it was given and the
\* totals of each call.
InitSummary ==
    /\ mode = "summary"
    /\ \E n \in 0..SummaryLen : \E f \in [1..n -> Outcomes] : results = ResultList(f)
    /\ loc = [given |-> results, first |-> NoTotals, again |-> NoTotals,
              reordered |-> NoTotals]
    /\ tasks = <<>> /\ plan = <<>> /\ max_workers = None
    /\ pc = "start" /\ i = 0 /\ raised = "none"
    /\ head = BaseBranch /\ branches = (BaseBranch :> <<>>)
    /\ worktrees = {} /\ created = <<>> /\ futures = <<>> /\ scratch = "absent"
    /\ calls = <<>>

PS_Call ==
    /\ mode = "summary" /\ pc = "start"
    /\ loc' = [loc EXCEPT !.first = print_summary(results)]
    /\ pc' = "again"
    /\ UNCHANGED <<mode, tasks, plan, max_workers, i, results, raised, head, branches,
                   worktrees, created, futures, scratch, calls>>

PS_CallAgain ==
    /\ mode = "summary" /\ pc = "again"
    /\ loc' = [loc EXCEPT !.again = print_summary(results)]
    /\ pc' = "reorder"
    /\ UNCHANGED <<mode, tasks, plan, max_workers, i, results, raised, head, branches,
                   worktrees, created, futures, scratch, calls>>

PS_CallReordered ==
    /\ mode = "summary" /\ pc = "reorder"
    /\ \E q \in Orders(Len(results)) :
          loc' = [loc EXCEPT !.reordered =
                     print_summary([k \in 1..Len(results) |-> results[q[k]]])]
    /\ pc' = "returned"
    /\ UNCHANGED <<mode, tasks, plan, max_workers, i, results, raised, head, branches,
                   worktrees, created, futures, scratch, calls>>

SummaryNext == PS_Call \/ PS_CallAgain \/ PS_CallReordered

SpecSummary == InitSummary /\ [][SummaryNext]_vars

\* -------------------------------------------------------------- properties
Finished == pc \in {"returned", "raised"}
Range(f) == {f[k] : k \in DOMAIN f}
Issued(k, cmd) == Call(k, cmd) \in Range(calls)
CallsFor(k) == {c \in Range(calls) : c.t = k}
ResultsOf(k) == {j \in 1..Len(results) : results[j].worker_id = k}

\* C1: the sequential runner, given N >= 1 tasks, ends by returning exactly N
\* results, the k-th with id k and the directory of the k-th submitted task,
\* whatever the outcome of each task.
C1_SeqReturnsNResultsInOrder ==
    (mode = "sequential" /\ N >= 1 /\ Finished) =>
        /\ pc = "returned"
        /\ Len(results) = N
        /\ \A k \in 1..N : /\ results[k].worker_id = k
                           /\ results[k].directory = tasks[k].directory

\* C2: once the worktree runner has submitted its executions, it ends by returning
\* a list with exactly one result for each id 1..N; no result is ever recorded twice;
\* every execution has run to its end and been collected (none is cancelled), and
\* one that raised has a result with success = FALSE.
C2_ParFaultsBecomeFailedResults ==
    (mode = "parallel" /\ futures # <<>>) =>
        /\ \A k \in 1..N : Cardinality(ResultsOf(k)) <= 1
        /\ raised = "none"
        /\ Finished =>
              /\ pc = "returned"
              /\ Len(results) = N
              /\ \A k \in 1..N :
                    /\ Cardinality(ResultsOf(k)) = 1
                    /\ futures[k].state = "collected"
                    /\ futures[k].out.raises # "none" =>
                          \A j \in ResultsOf(k) : ~results[j].success

\* C2 witness: two executions raised, the second completed first, and the runner
\* returned a failed result for each, in completion order.
C2_Witness ==
    /\ mode = "parallel" /\ pc = "returned" /\ N = 2
    /\ Len(results) = 2 /\ results[1].worker_id = 2 /\ results[2].worker_id = 1
    /\ \A k \in 1..2 : futures[k].out.raises # "none" /\ ~results[k].success

\* C3: in the worktree runner, when every task's directory exists, the agent of
\* exactly one task k raises when invoked (timeout, executable missing) and the agent
\* of every other task exits successfully, the returned results are failed for k
\* and successful for every other task.
C3_OnlyTheRaisingTaskFails ==
    (/\ mode = "parallel" /\ pc = "returned" /\ N >= 1
     /\ \A k \in 1..N : IsDir(tasks[k].directory)) =>
        \A k \in 1..N :
            (/\ plan[k].exit \in {"timeout", "notfound"}
             /\ \A j \in 1..N : j # k => plan[j].exit = "zero") =>
                \A j \in 1..Len(results) :
                    results[j].success <=> (results[j].worker_id # k)

\* C4: when the worktree runner has ended, by returning or by raising, a removal
\* has been issued for every worktree copy recorded in the pre-phase and no worktree
\* copy remains; every worktree copy that exists is a recorded one; and removing
\* the scratch root never raises.
C4_TeardownAlwaysRuns ==
    mode = "parallel" =>
        /\ worktrees \subseteq Range(created)
        /\ raised # "OSError(rmdir)"
        /\ Finished =>
              /\ \A w \in Range(created) : Issued(PathWorker(w), "worktree_remove")
              /\ worktrees = {}

\* C4 witness: a fault part-way through the pre-phase, after a worktree copy had
\* been created; the runner has raised, the copy is removed, and the scratch root,
\* which holds something else, is still there.
C4_Witness ==
    /\ mode = "parallel" /\ pc = "raised" /\ raised = "OSError"
    /\ created = <<WorktreePath(1)>> /\ N = 2 /\ worktrees = {}
    /\ Issued(1, "worktree_remove") /\ scratch = "stale"

\* C5: in the sequential runner a task whose directory does not exist gets a failed
\* result, no Gateway call and no agent invocation is ever issued for it, and the
\* runner goes on to the next task.
C5_SeqMissingDirNoCalls ==
    mode = "sequential" =>
        \A k \in 1..N : ~IsDir(tasks[k].directory) =>
            /\ CallsFor(k) = {}
            /\ k <= Len(results) => ~results[k].success
            /\ (k < N /\ Len(results) = k) => i = k + 1
            /\ (Finished /\ i > k) => k <= Len(results)

\* C5 witness: the first task's directory is missing; its result is failed, and the
\* second task has run and succeeded.
C5_Witness ==
    /\ mode = "sequential" /\ pc = "returned" /\ N = 2
    /\ ~IsDir(tasks[1].directory) /\ ~results[1].success /\ CallsFor(1) = {}
    /\ results[2].success /\ Issued(2, "agent")

\* C6: in the worktree runner a task whose directory does not exist gets a failed
\* result and has no git-side effect: no branch and no worktree copy is ever created
\* for it.
C6_ParMissingDirNoGitEffects ==
    mode = "parallel" =>
        \A k \in 1..N : ~IsDir(tasks[k].directory) =>
            /\ ~Issued(k, "branch") /\ ~Issued(k, "worktree_add")
            /\ WorktreePath(k) \notin worktrees
            /\ generate_branch_name(k, tasks[k].directory) \notin DOMAIN branches
            /\ \A j \in ResultsOf(k) : ~results[j].success

\* C7: when the sequential runner has ended, every task j whose directory exists,
\* whose own setup did not fail and whose agent exits with status 0 has a result
\* with success = TRUE that carries task j's own agent output, whatever happened to
\* the other tasks.
SetupFailed(j) ==
    \/ j <= Len(results) /\ results[j].output.src.k = "stderr"
    \/ pc = "raised" /\ raised = "TimeoutExpired" /\ i = j

C7_SeqFailureIsolation ==
    (mode = "sequential" /\ Finished) =>
        \A j \in 1..N :
            (/\ IsDir(tasks[j].directory) /\ ~SetupFailed(j)
             /\ plan[j].exit = "zero" /\ plan[j].shape # "nonobject") =>
                /\ j <= Len(results)
                /\ results[j].success
                /\ results[j].output.src = [k |-> "stdout", t |-> j]

\* C8: a result made from the output of an agent that ran to its exit stores the
\* first 5000 characters of that output when it is longer than 5000 characters, and
\* all of it otherwise.
C8_OutputTruncation ==
    \A j \in 1..Len(results) :
        LET k == results[j].worker_id
        IN (Issued(k, "agent") /\ plan[k].exit \in {"zero", "nonzero"}) =>
              results[j].output =
                  [src |-> [k |-> "stdout", t |-> k], lit |-> 0, lo |-> 0,
                   hi |-> IF plan[k].len > OutputCap THEN OutputCap ELSE plan[k].len]

\* C8 witness: the sequential runner has stored 5000 characters of an output of
\* more than 5000 characters.
C8_Witness ==
    /\ mode = "sequential" /\ Len(results) >= 1
    /\ Issued(1, "agent") /\ plan[1].exit = "zero" /\ plan[1].len > OutputCap
    /\ TextLen(results[1].output) = OutputCap /\ results[1].output.lo = 0

\* C9: the output of every result, on every path of either runner, is at most 5000
\* characters long.
C9_OutputAtMostCap ==
    \A j \in 1..Len(results) : TextLen(results[j].output) <= OutputCap

\* C10: parsing the cost never raises: whatever the shape of the agent's output the
\* worker raises nothing, and its result records the cost figure when the output
\* has one and 0 otherwise.
C10_CostParsingNeverRaises ==
    /\ raised # "AttributeError"
    /\ \A j \in 1..Len(results) :
          LET k == results[j].worker_id
          IN (Issued(k, "agent") /\ plan[k].exit \in {"zero", "nonzero"}) =>
                results[j].cost_usd =
                    IF plan[k].shape = "object_cost" THEN CostFigure ELSE 0

\* C11: in the sequential runner a failed checkout of the base branch or a failed
\* creation of the task branch fails that task only: its result has success = FALSE,
\* the agent is not invoked for it, the runner goes on to the next task, and the
\* failure never makes the runner raise.
GitFailed(k) == k <= Len(results) /\ results[k].output.src.k = "stderr"

C11_SeqGitFailureFailsOneTask ==
    mode = "sequential" =>
        /\ raised # "CalledProcessError"
        /\ \A k \in 1..N : GitFailed(k) =>
              /\ ~results[k].success
              /\ ~Issued(k, "agent")
              /\ (k < N /\ Len(results) = k) => i = k + 1
              /\ pc = "raised" => i > k

\* C11 witness: creating the first task's branch failed; the second task has run
\* its agent and succeeded.
C11_Witness ==
    /\ mode = "sequential" /\ pc = "returned" /\ N = 2
    /\ GitFailed(1) /\ Issued(1, "checkout_b") /\ ~results[1].success
    /\ Issued(2, "agent") /\ results[2].success

\* C12: in the sequential runner a failed update of the base branch, whether git
\* pull returns an error or runs past its 60 second timeout, is not fatal: the
\* runner does not raise because of it and the task goes on to create its branch.
C12_SeqPullFailureNonFatal ==
    mode = "sequential" =>
        /\ ~(pc = "raised" /\ raised = "TimeoutExpired")
        /\ \A k \in 1..N :
              (Issued(k, "pull") /\ ~(i = k /\ pc = "branch")) => Issued(k, "checkout_b")

\* C13: the parallel runner raises instead of returning only because of a fault
\* that occurs before any execution was dispatched to the pool; once an execution
\* has been dispatched the runner always ends by returning a list of results.
Dispatched == futures # <<>>

C13_ParAbortOnlyBeforeDispatch ==
    mode = "parallel" =>
        /\ pc = "raised" => ~Dispatched
        /\ Dispatched => raised = "none"
        /\ (Dispatched /\ Finished) => (pc = "returned" /\ Len(results) = N)

\* C13 witness: the pre-phase has prepared every task, the pool could not be
\* created, nothing was dispatched and the runner raised after its teardown.
C13_Witness ==
    /\ mode = "parallel" /\ pc = "raised" /\ raised = "ValueError"
    /\ N > 0 /\ Len(created) = N /\ ~Dispatched /\ results = <<>>

\* C14: in the worktree runner a Gateway command of the pre-phase that fails
\* (the branch or the worktree copy of a task is not created) aborts the whole
\* batch: the runner raises, and no execution is ever dispatched.
GatewayFailedInPre(k) ==
    /\ WorktreePath(k) \in Range(created)
    /\ \/ tasks[k].branch_name \notin DOMAIN branches
       \/ pc \in {"pre", "pool", "collect"} /\ WorktreePath(k) \notin worktrees

C14_ParPreFailureAborts ==
    mode = "parallel" =>
        \A k \in 1..N : GatewayFailedInPre(k) =>
            /\ ~Dispatched
            /\ pc \notin {"pre", "pool", "collect", "returned"}

\* C15: in the sequential runner, once the agent invocation of a task has been
\* reached, the commits of the task branch relative to the base branch are queried
\* afterwards whatever the invocation did (success, non-zero exit, timeout,
\* executable missing), and the task gets its result; after a timeout the result
\* has success = FALSE and lists the commits made before the timeout.
C15_SeqCommitsQueriedAfterAgent ==
    mode = "sequential" =>
        \A k \in 1..N : (Issued(k, "agent") /\ (i > k \/ Finished)) =>
            /\ Issued(k, "log")
            /\ k <= Len(results)
            /\ plan[k].exit = "timeout" =>
                  /\ ~results[k].success
                  /\ results[k].commits = GitLogSinceBase(branches[results[k].branch_name])

\* C16: in either runner the agent is invoked at most once for a task in a batch;
\* when the agent executable is missing the task gets a failed result and the
\* agent is not invoked a second time.
Invocations(k) == Cardinality({j \in DOMAIN calls : calls[j] = Call(k, "agent")})

C16_AgentInvokedAtMostOnce ==
    \A k \in 1..N :
        /\ Invocations(k) <= 1
        /\ \A j \in ResultsOf(k) :
              (Invocations(k) = 1 /\ plan[k].exit = "notfound") => ~results[j].success

\* C16 witness: the sequential runner has returned; the agent executable was
\* missing for the first task, which was invoked once and has a failed result.
C16_Witness ==
    /\ mode = "sequential" /\ pc = "returned" /\ N >= 1
    /\ plan[1].exit = "notfound" /\ Invocations(1) = 1
    /\ ~results[1].success /\ Issued(1, "log")

\* C17: for every worker id and directory string generate_branch_name returns a
\* name auto-worker{id}-{slug}/{timestamp}-{suffix}, the slug at most 20 characters
\* long, that is a legal reference name: no control character, no leading '-' or
\* '.', no '..' anywhere, not ending in '.lock' or '/', at most 250 characters.
ControlChars == {"\t"}
EndsWith(str, tail) ==
    Len(str) >= Len(tail) /\ SubSeq(str, Len(str) - Len(tail) + 1, Len(str)) = tail
LegalRefName(name) ==
    /\ \A j \in 1..Len(name) : name[j] \notin ControlChars
    /\ name[1] \notin {"-", "."}
    /\ \A j \in 1..(Len(name) - 1) : ~(name[j] = "." /\ name[j + 1] = ".")
    /\ ~EndsWith(name, <<".", "l", "o", "c", "k">>)
    /\ ~EndsWith(name, <<"/">>)
    /\ Len(name) <= MaxRefLen
Named(k) == k \in 1..N /\ tasks[k].branch_name # NoName

C17_BranchNameIsLegalRef ==
    mode = "naming" =>
        \A k \in 1..N : Named(k) =>
            /\ Len(dir_slug(tasks[k].directory)) <= SlugCap
            /\ LegalRefName(tasks[k].branch_name)

\* C18, as stated: two branch names generated in one process for two (worker id,
\* directory) pairs that differ are never equal, whatever the clock readings and
\* the random suffixes of the two calls.
BothNamed == mode = "naming" /\ Named(1) /\ Named(2)

C18_DistinctPairsDistinctNames ==
    BothNamed =>
        (<<tasks[1].worker_id, tasks[1].directory>> # <<tasks[2].worker_id, tasks[2].directory>>
            => tasks[1].branch_name # tasks[2].branch_name)

\* C18, amended: two branch names generated in one process for two (worker id,
\* directory) pairs that differ in the worker id, or in the slug of the directory
\* (separators replaced by '-', cut to 20 characters), are never equal, whatever
\* the clock readings and the random suffixes of the two calls.
C18_DistinctIdOrSlugDistinctNames ==
    BothNamed =>
        ((\/ tasks[1].worker_id # tasks[2].worker_id
          \/ dir_slug(tasks[1].directory) # dir_slug(tasks[2].directory))
            => tasks[1].branch_name # tasks[2].branch_name)

\* C18 witness: two calls with one directory, one clock reading and one suffix, for
\* the worker ids 1 and 12; the names differ.
C18_Witness ==
    /\ BothNamed
    /\ tasks[1].worker_id = 1 /\ tasks[2].worker_id = 12
    /\ tasks[1].directory = tasks[2].directory
    /\ loc.now[1] = loc.now[2] /\ loc.suffix[1] = loc.suffix[2]
    /\ tasks[1].branch_name # tasks[2].branch_name

\* C19, as stated: the totals are the number of successful results, the sum of the
\* lengths of the commit lists and the sum of the costs; a second computation over
\* the same list gives the same totals; the totals do not depend on the order of
\* the results; and no WorkerResult is modified.
RECURSIVE SumOver(_, _)
SumOver(S, f) ==
    IF S = {} THEN 0 ELSE LET k == CHOOSE k \in S : TRUE IN f[k] + SumOver(S \ {k}, f)
Successes == Cardinality({k \in DOMAIN results : results[k].success})
CommitCount == SumOver(DOMAIN results, [k \in DOMAIN results |-> Len(results[k].commits)])
ExactCost == SumOver(DOMAIN results, [k \in DOMAIN results |-> results[k].cost_usd])

C19_TotalsCorrectAndRepeatable ==
    /\ results = loc.given
    /\ pc # "start" =>
          /\ loc.first.successful = Successes
          /\ loc.first.total_commits = CommitCount
          /\ BitLen(ExactCost) <= MantBits => loc.first.total_cost = ExactCost
    /\ pc \in {"reorder", "returned"} => loc.again = loc.first

C19_AggregationPureAnyOrder ==
    mode = "summary" =>
        /\ C19_TotalsCorrectAndRepeatable
        /\ pc = "returned" => loc.reordered = loc.first

\* C19, amended: as stated, except that only the success count and the total
\* commits are independent of the order of the results; the total cost is the
\* floating-point sum taken in list order, equal to the exact sum when no addition
\* rounds.
C19_AggregationPureCountsAnyOrder ==
    mode = "summary" =>
        /\ C19_TotalsCorrectAndRepeatable
        /\ pc = "returned" =>
              /\ loc.reordered.successful = loc.first.successful
              /\ loc.reordered.total_commits = loc.first.total_commits

\* C19 witness: three results, not all successful, with commits and costs; the
\* totals were computed twice and once more in another order, which gave another
\* total cost.
C19_Witness ==
    /\ mode = "summary" /\ pc = "returned" /\ Len(results) = 3
    /\ loc.first.successful = 2 /\ loc.first.total_commits > 0
    /\ loc.again = loc.first
    /\ loc.reordered.total_cost # loc.first.total_cost

\* C20: the pool of the worktree runner is created with size min(task count,
\* configured cap) when a cap is configured and min(task count, CPU count) when
\* none is; the size of a pool never exceeds the number of tasks.
C20_PoolSizeAtMostTasks ==
    (mode = "parallel" /\ Dispatched) =>
        /\ PoolSize(N, max_workers) =
              IF max_workers = None THEN Min(N, Cpus) ELSE Min(N, max_workers)
        /\ PoolSize(N, max_workers) <= N

\* C21: an empty task list is a fatal configuration error found before any task
\* starts: the batch ends in an error outcome, and no Gateway call is issued, no
\* agent is invoked and the scratch directory is not created.
Ended == pc \in {"returned", "raised", "exited"}

C21_EmptyTaskListIsFatalError ==
    (tasks = <<>> /\ Ended) =>
        /\ raised \notin {"none", "SystemExit(0)"}
        /\ calls = <<>>
        /\ scratch # "empty"

\* C22: in the worktree runner every branch and worktree creation of the pre-phase
\* has been issued before the first execution is dispatched, and no worktree
\* removal is issued while an execution is still pending or running: the runner
\* creates and removes only while no execution of the batch is under way.
Running(k) == k \in DOMAIN futures /\ futures[k].state = "pending"

C22_ParPhasesDoNotOverlap ==
    mode = "parallel" =>
        /\ Dispatched =>
              \A k \in 1..N : Issued(k, "branch") /\ Issued(k, "worktree_add")
        /\ \A k \in 1..N : Running(k) =>
              /\ pc = "collect"
              /\ \A w \in 1..N : ~Issued(w, "worktree_remove")

\* C22 witness: two executions were dispatched and have both ended; the teardown
\* has removed the first worktree copy and is about to remove the second.
C22_Witness ==
    /\ mode = "parallel" /\ pc = "teardown" /\ N = 2 /\ Dispatched
    /\ \A k \in 1..N : futures[k].state = "collected"
    /\ Issued(1, "worktree_remove") /\ ~Issued(2, "worktree_remove")

\* C23: the sequential runner works on one task at a time: the calls it issues are
\* in task order, at most one task has had a call issued and has no result yet, and
\* the first call for task k + 1 comes only after the result of task k was appended.
InProgress(k) == CallsFor(k) # {} /\ Len(results) < k

AllCollected == mode = "parallel" /\ Dispatched /\ pc = "teardown" /\ i = 1

C24_ParAgentInvokedOncePerTask ==
    AllCollected =>
        \A k \in 1..N : (WorktreePath(k) \in worktrees /\ IsDir(tasks[k].directory)) =>
            /\ Invocations(k) = 1
            /\ \A j \in ResultsOf(k) : results[j].success = (plan[k].exit = "zero")

\* C25: in every result of either runner success = TRUE only if the task's
\* directory existed, its branch setup succeeded, and the agent was invoked and
\* exited with its success signal, without timing out; every other path (missing
\* directory, setup failure, timeout, executable missing, non-zero exit, captured
\* fault) gives success = FALSE.
C25_SuccessOnlyOnCleanRun ==
    \A j \in 1..Len(results) :
        LET r == results[j]
        IN r.success =>
              /\ IsDir(r.directory)
              /\ Issued(r.worker_id, "agent")
              /\ plan[r.worker_id].exit = "zero"
              /\ r.branch_name \in DOMAIN branches
              /\ mode = "sequential" => Issued(r.worker_id, "checkout_b")

\* C25 witness: a sequential batch of two tasks has returned; the first ran its
\* agent to a zero exit and succeeded, the second's agent exited non-zero.
C25_Witness ==
    /\ mode = "sequential" /\ pc = "returned" /\ N = 2
    /\ results[1].success /\ plan[1].exit = "zero"
    /\ ~results[2].success /\ plan[2].exit = "nonzero" /\ Issued(2, "agent")

\* C28: in the sequential runner every task branch is created from the base branch
\* (it holds no commit of its own when it is created), so every commit listed in
\* the result of task k was made while the agent of task k was running: no commit of
\* another task's invocation is in the list.
C28_SeqCommitsAreTheTasksOwn ==
    mode = "sequential" =>
        /\ pc = "agent" => (head = loc.branch_name /\ branches[head] = <<>>)
        /\ \A j \in 1..Len(results) :
              \A c \in Range(results[j].commits) : c.t = results[j].worker_id

\* C28 witness: two tasks have run one after the other, the agent of each made a
\* commit, and each result lists the one commit of its own task.
C28_Witness ==
    /\ mode = "sequential" /\ pc = "returned" /\ N = 2
    /\ results[1].commits = <<[t |-> 1, n |-> 1]>>
    /\ results[2].commits = <<[t |-> 2, n |-> 1]>>

\* The commits the agent of the worktree task made, most recent first.
OwnCommits == GitLogSinceBase(branches[tasks[1].branch_name])

\* C26: a result of the worktree worker never lists more than 10 commits, and a
\* task whose agent made more than 10 commits has exactly the 10 most recent of
\* them listed.
C26_ParCommitWindowBound ==
    (mode = "worker" /\ results # <<>>) =>
        /\ Len(results[1].commits) <= CommitWindow
        /\ Len(OwnCommits) > CommitWindow =>
              results[1].commits = SubSeq(OwnCommits, 1, CommitWindow)

\* C27: every commit listed in a result of the worktree worker was made on the
\* task's branch by the task's agent, none is inherited from the base branch, and a
\* task whose agent made no commit has an empty list.
C27_ParCommitsOnlyFromTaskBranch ==
    (mode = "worker" /\ results # <<>>) =>
        /\ \A c \in Range(results[1].commits) : c \in Range(OwnCommits)
        /\ OwnCommits = <<>> => results[1].commits = <<>>

\* C29: in the worktree runner the worktree paths of two distinct tasks differ,
\* the path of each task is the one keyed by its worker id, every execution that
\* has a working directory has the path of its own task, and no two executions
\* have the same one.
C29_ParWorktreePathsAreOwned ==
    mode = "parallel" =>
        /\ \A a, b \in DOMAIN created : a # b => created[a] # created[b]
        /\ \A a \in DOMAIN created : PathWorker(created[a]) = tasks[a].worker_id
        /\ \A j \in DOMAIN futures : futures[j].state # "pending" =>
              /\ futures[j].out.cwd \in {NoPath, created[j]}
              /\ \A k \in DOMAIN futures :
                    (k # j /\ futures[k].state # "pending"
                       /\ futures[k].out.cwd = futures[j].out.cwd)
                    => futures[j].out.cwd = NoPath

\* C29 witness: two tasks have been prepared and dispatched, their executions have
\* ended, and the two worktree paths are different.
C29_Witness ==
    /\ mode = "parallel" /\ pc = "collect" /\ N = 2
    /\ created = <<WorktreePath(1), WorktreePath(2)>>
    /\ created[1] # created[2]
    /\ worktrees = {created[1], created[2]}
    /\ \A k \in 1..2 : futures[k].state = "done"

\* C31: the branch names of two tasks of one batch, which have different worker
\* ids, are different for every reading of the clock and every random suffix, also
\* when the two tasks name the same directory: the two tasks never create or write
\* the same reference.
C31_BatchBranchNamesDistinct ==
    (BothNamed /\ tasks[1].worker_id # tasks[2].worker_id) =>
        /\ tasks[1].branch_name # tasks[2].branch_name
        /\ \A k \in 1..2 :
              SubSeq(tasks[k].branch_name, 1, Len(NamePrefix) + Len(Decimal(tasks[k].worker_id)) + 1)
                 = NamePrefix \o Decimal(tasks[k].worker_id) \o <<"-">>

\* C31 witness: the tasks with worker ids 2 and 12 name one directory and are named
\* within the same second with the same four random letters; their names differ.
C31_Witness ==
    /\ BothNamed
    /\ tasks[1].worker_id = 2 /\ tasks[2].worker_id = 12
    /\ tasks[1].directory = tasks[2].directory
    /\ Strftime(loc.now[1]) = Strftime(loc.now[2]) /\ loc.now[1] # loc.now[2]
    /\ loc.suffix[1] = loc.suffix[2]
    /\ tasks[1].branch_name # tasks[2].branch_name

\* C32: a task's branch_name is empty until the task is dispatched, and every
\* result of either runner belongs to a task whose branch_name is by then non-empty
\* and equal to the branch_name of the result, on failure paths too.
C32_TaskBranchNameAssignedAtDispatch ==
    mode \in {"sequential", "parallel"} =>
        /\ pc = "start" => \A k \in 1..N : tasks[k].branch_name = NoName
        /\ \A j \in DOMAIN results :
              LET t == tasks[results[j].worker_id]
              IN /\ t.branch_name # NoName
                 /\ t.branch_name = results[j].branch_name

\* The provisos of C33 hold in a run: no version-control command failed to return
\* (none could not be started, and git pull was not cut off by its timeout).
EveryGitCallReturned == raised \notin {"OSError", "TimeoutExpired"}

\* C33: provided every version-control call returns and every agent invocation
\* returns or is killed by its timeout, each runner ends by returning its result
\* list, the worktree runner after its teardown, and no task is left without a
\* result: a run in which the provisos hold never ends by raising.
C33_RunnersReturnAllResults ==
    (mode \in {"sequential", "parallel"} /\ Finished /\ EveryGitCallReturned) =>
        /\ pc = "returned"
        /\ \A k \in 1..N : ResultsOf(k) # {}

\* The tasks of a sequential batch that got their branch created and checked out,
\* those whose git checkout of the base branch succeeded, the last member of a
\* non-empty set of tasks, and the branch of task k.
PassedSetup == {k \in 1..N : Issued(k, "agent")}
CheckedOutBase == {k \in 1..N : Issued(k, "pull")}
Last(S) == CHOOSE m \in S : \A j \in S : j <= m
BranchOf(k) == generate_branch_name(k, tasks[k].directory)

\* C34, as stated: after a sequential batch in which at least one task passed its
\* branch setup, the working tree is on the branch of the last task that passed
\* setup, not on the base branch.
C34_SeqLeftOnLastTaskBranch ==
    (mode = "sequential" /\ Finished /\ PassedSetup # {}) =>
        /\ head = BranchOf(Last(PassedSetup))
        /\ head # BaseBranch

\* C34, amended: after a sequential batch in which at least one task got the base
\* branch checked out, the working tree is where the last such task left it: on that
\* task's branch if the task passed its branch setup, and on the base branch if its
\* branch setup failed after the checkout, also when an earlier task passed setup.
C34_SeqLeftWhereLastCheckoutLeftIt ==
    (mode = "sequential" /\ Finished /\ CheckedOutBase # {}) =>
        LET m == Last(CheckedOutBase)
        IN head = IF m \in PassedSetup THEN BranchOf(m) ELSE BaseBranch

\* C34 witness: the first task passed its branch setup and its agent ran; the
\* second got the base branch checked out and then failed to create its branch;
\* the runner has returned both results and the working tree is on the base branch.
C34_Witness ==
    /\ mode = "sequential" /\ pc = "returned" /\ N = 2 /\ Len(results) = 2
    /\ PassedSetup = {1} /\ CheckedOutBase = {1, 2}
    /\ head = BaseBranch
    /\ BranchOf(1) \in DOMAIN branches

\* C35: in the worktree runner no step deletes a branch or moves the main working
\* tree off the branch it is on, and the teardown changes no branch: every branch
\* the pre-phase created is still there, with the commits it holds, when the runner
\* has returned or raised.
C35_ParTeardownKeepsBranches ==
    [][mode = "parallel" =>
          /\ head' = head
          /\ \A b \in DOMAIN branches : b \in DOMAIN branches'
          /\ pc = "teardown" => branches' = branches]_vars

\* C35 witness: the runner has returned after a batch of two tasks; both worktree
\* copies were created and have been removed, both task branches still exist, and
\* the main working tree is on the base branch.
C35_Witness ==
    /\ mode = "parallel" /\ pc = "returned" /\ N = 2 /\ Len(results) = 2
    /\ Issued(1, "worktree_remove") /\ Issued(2, "worktree_remove")
    /\ worktrees = {}
    /\ \A k \in 1..2 : /\ Issued(k, "branch")
                       /\ tasks[k].branch_name # NoName
                       /\ tasks[k].branch_name \in DOMAIN branches
    /\ head = BaseBranch

====
